---------------------------- MODULE Spec2Model ----------------------------
(***************************************************************************)
(* Collaborative canvas engines of fawa-io/fawa.                           *)
(*                                                                         *)
(* The repository holds three handlers that never share a process:         *)
(*   - canvaxservice (src/unnamed/part_006): one handler-level canvas,     *)
(*     duplex-stream connections (Collaborate), one broadcast goroutine;   *)
(*   - newcanva     (src/unnamed/part_002): the same handler-level canvas  *)
(*     over WebSocket plus code-addressed sessions over WebTransport;      *)
(*   - Newcanva     (src/Newcanva/handler.go): code-addressed sessions     *)
(*     over WebSocket and WebTransport, one writer goroutine per client.   *)
(*                                                                         *)
(* Canvas 0 is the handler-level canvas (h.clients, h.history,             *)
(* h.broadcast); canvases 1..MaxSessions are CanvasSession objects in the  *)
(* order CreateCanvas allocated them.  A connection runs one handler,      *)
(* prog[c]: "bidi" is Collaborate, "ws" is HandleWebSocket of Newcanva.    *)
(*                                                                         *)
(* util.GenerateRandomString is taken to return a client id no live        *)
(* connection holds; a session code is any string of the generator, one    *)
(* a live session holds included (nothing checks for a collision).         *)
(***************************************************************************)
EXTENDS Integers, Sequences, FiniteSets, TLC

\* ------------------------------------------------------------- bounds
MaxMsgs == 2
MaxSessions == 2
MaxNow == 11
MaxUnregister == 2

\* -------------------------------------------------- program constants
HistoryLimit == 1000
BroadcastCap == 100
sessionCleanerInterval == 1
sessionExpiryDuration == 10

\* ---------------------------------------------------------- universes
Conns == {"c1", "c2"}
Codes == {"k1"}
EventTypes == {"draw", "clear", "ping"}
CanvasIds == 0 .. MaxSessions
SessionIds == 1 .. MaxSessions

\* The id util.GenerateRandomString(8) handed to connection c.
ClientID(c) == "id-" \o c

\* Values a client may put in the client_id field of its payload.
PayloadIds == {""} \cup {ClientID(c) : c \in Conns}

\* The time field of every request of a run: a value the clients chose, which
\* no reading of the server's clock gives.
ClientTime == 0 - 1

NoEvent == [type |-> "none", clientId |-> "", time |-> 0, from |-> "", n |-> 0]

\* One decoded DrawEvent of a request: its type, client_id and time as the
\* client sent them; from and n (the connection that sent it and the number
\* of the message) identify the event and are not fields of the wire message.
Payload(type, pid, c, n) ==
  [type |-> type, clientId |-> pid, time |-> ClientTime, from |-> c, n |-> n]

\* What a receive loop holds after a message that does not decode.
Malformed(c, n) ==
  [type |-> "malformed", clientId |-> "", time |-> 0, from |-> c, n |-> n]

\* The goroutines that take the locks of a canvas: the handler of each
\* connection, sessionCleaner, handleBroadcasts and the caller of Close.
Tasks == Conns \cup {"sessionCleaner", "handleBroadcasts", "main"}

\* ClientDrawResponse: either InitialHistory or DrawEvent is set.
HistoryMsg(h) == [kind |-> "history", events |-> h, event |-> NoEvent]
EventMsg(e) == [kind |-> "event", events |-> <<>>, event |-> e]

\* The streams a WebTransport client opens towards the server.
Streams == {1, 2}

\* A stream the client has not opened.
NoStream == [pc |-> "none", cur |-> NoEvent]

\* The strings Generaterandomstring(8) returns: two of the 62^8, which two
\* calls can both draw.
RandomStrings == {"r1", "r2"}

\* No entry under a key of h.clients.
NoConn == "none"

\* A goroutine outside every critical section.
NoCrit == [op |-> "none", stage |-> "out"]

\* No session visited in the running pass.
NoVisit == [code |-> "", s |-> 0, count |-> 0, idle |-> 0, removed |-> FALSE]

VARIABLES
  registry,    \* h.Sessions: code -> session object (0: no entry)
  nsess,       \* CanvasSession objects allocated so far
  clients,     \* canvas -> connections in its clients map
  history,     \* canvas -> History
  feed,        \* canvas -> content of the Broadcast channel
  lastActive,  \* canvas -> LastActive, in minutes
  prog,        \* connection -> handler it runs ("none" before it connects)
  pc,          \* connection -> position of its handler goroutine
  status,      \* connection -> HTTP answer to its connect request
  csess,       \* connection -> canvas it resolved
  snap,        \* connection -> events sendInitialHistory copied and has yet to send
  cur,         \* connection -> event its receive loop handled last
  wpc,         \* connection -> position of its sessionBroadcastWriter
  wheld,       \* connection -> event its writer took from the feed
  inbox,       \* connection -> messages written to its transport, in order
  bpc,         \* position of handleBroadcasts
  bheld,       \* event handleBroadcasts took from h.broadcast
  nmsg,        \* requests received so far, over all connections
  appendLog,   \* canvas -> every event appended to it, in append order
  joinedNonEmpty, \* connection -> the history held events when it registered
  now,         \* wall clock, in minutes
  rpc,         \* position of sessionCleaner
  rnow,        \* sessionCleaner's now of the running pass
  rtodo,       \* codes the running pass has yet to visit
  rcode,       \* code the pass is visiting ("" between visits)
  rcount,      \* clientCount read for that code
  visited,     \* what the running pass of sessionCleaner saw and did last
  qcode,       \* connection -> the code parameter of its request
  sendChan,    \* connection -> content of its WebTransportSession.SendChan
  streams,     \* connection -> stream -> the goroutine reading that stream
  done,        \* the done channels that are closed ("h": h.done; c: that client's)
  panicked,    \* a close of a closed channel has brought the process down
  stalled,     \* connections whose peer has stopped reading
  crit,        \* goroutine -> the critical section it is in
  unreg,       \* connection -> what each unregisterClient call for its id found
  cid,         \* connection -> the clientID its handler generated ("" before)
  byId         \* h.clients by key: id -> connection of the entry's stream

vars == <<registry, nsess, clients, history, feed, lastActive, prog, pc, status,
          csess, snap, cur, wpc, wheld, inbox, bpc, bheld, nmsg, appendLog,
          joinedNonEmpty, now, rpc, rnow, rtodo, rcode, rcount, visited,
          qcode, sendChan, streams, done, panicked, stalled, crit,
          unreg, cid, byId>>

canvasVars == <<clients, history, feed, lastActive>>
connVars == <<prog, pc, status, csess, snap, cur>>
writerVars == <<wpc, wheld>>
broadcasterVars == <<bpc, bheld>>
reaperVars == <<rpc, rnow, rtodo, rcode, rcount, visited>>
ghostVars == <<appendLog, joinedNonEmpty>>
auxVars == <<streams, done, panicked, stalled, crit, unreg, cid, byId>>


\* ------------------------------------------------------ pure functions

\* The assignment left out: the event keeps the id its payload carried.
SetClientIDKeepsPayload(e, id) == e

\* event.ClientID = clientID
SetClientID(e, id) == [e EXCEPT !.clientId = id]

\* addToHistory: at the limit the first half is dropped, then the event is
\* appended.
addToHistory(h, e) ==
  IF Len(h) >= HistoryLimit
    THEN Append(SubSeq(h, (Len(h) \div 2) + 1, Len(h)), e)
    ELSE Append(h, e)

\* The history emptied without keeping the clear event.
clearHistoryDropsEvent(h, clearEvent) == <<>>

\* clearHistory: the history becomes the clear event alone.
clearHistory(h, clearEvent) == <<clearEvent>>

\* session.History = append(session.History, event) of
\* processSessionDrawEvent.
appendSessionHistory(h, e) == Append(h, e)

\* A copy whose last element was read while an append was writing it.
copyHistoryTorn(h) ==
  [i \in 1 .. Len(h) |-> IF i = Len(h) THEN NoEvent ELSE h[i]]

\* make + copy under the read lock: the caller's own copy of the history.
copyHistory(h) == [i \in 1 .. Len(h) |-> h[i]]

\* unregisterClient of newcanva with the lock taken, as close(cl.done) and
\* delete for whatever id: the close of a closed channel panics.
unregisterClientNoExistsTest(cls, closed, id) ==
  [clients |-> cls \ {id}, done |-> closed \cup {id}, panic |-> id \in closed,
   found |-> "removed"]

\* unregisterClient of newcanva with the lock taken: if the id is in the
\* map, close(cl.done), wsConn.Close() and delete; else nothing.
unregisterClient(cls, closed, id) ==
  IF id \in cls
    THEN [clients |-> cls \ {id}, done |-> closed \cup {id},
          panic |-> id \in closed, found |-> "removed"]
    ELSE [clients |-> cls, done |-> closed, panic |-> FALSE, found |-> "absent"]

\* The mode in which a function takes its mutex, with processSessionDrawEvent
\* appending under the read lock.
LockModeAppendUnderRLock(op) ==
  IF op \in {"HandleWebSocket.historyCopy", "sessionCleaner.clientCount",
             "sendInitialHistory", "broadcastToClients",
             "processSessionDrawEvent"}
    THEN "RLock" ELSE "Lock"

\* The mode in which a function takes its mutex: RLock/RUnlock in the copies
\* of the history, in sessionCleaner's count and in broadcastToClients,
\* Lock/Unlock everywhere else.
LockMode(op) ==
  IF op \in {"HandleWebSocket.historyCopy", "sessionCleaner.clientCount",
             "sendInitialHistory", "broadcastToClients"}
    THEN "RLock" ELSE "Lock"

\* What the code does to each structure and under which mutex: the function,
\* the goroutine that runs it, the mutex it takes, the structure it touches
\* and how.
LockOps ==
  { [op |-> "HandleWebSocket.register", by |-> "conn",
     mu |-> "session.ClientsMu", obj |-> "session.Clients", access |-> "write"],
    [op |-> "HandleWebSocket.delete", by |-> "conn",
     mu |-> "session.ClientsMu", obj |-> "session.Clients", access |-> "write"],
    [op |-> "HandleWebSocket.historyCopy", by |-> "conn",
     mu |-> "session.HistoryMu", obj |-> "session.History", access |-> "read"],
    [op |-> "processSessionDrawEvent", by |-> "conn",
     mu |-> "session.HistoryMu", obj |-> "session.History", access |-> "write"],
    [op |-> "sessionCleaner.clientCount", by |-> "sessionCleaner",
     mu |-> "session.ClientsMu", obj |-> "session.Clients", access |-> "read"],
    [op |-> "registerClient", by |-> "conn",
     mu |-> "h.clientsMu", obj |-> "h.clients", access |-> "write"],
    [op |-> "unregisterClient", by |-> "conn",
     mu |-> "h.clientsMu", obj |-> "h.clients", access |-> "write"],
    [op |-> "sendInitialHistory", by |-> "conn",
     mu |-> "h.historyMu", obj |-> "h.history", access |-> "read"],
    [op |-> "addToHistory", by |-> "conn",
     mu |-> "h.historyMu", obj |-> "h.history", access |-> "write"],
    [op |-> "clearHistory", by |-> "conn",
     mu |-> "h.historyMu", obj |-> "h.history", access |-> "write"],
    [op |-> "broadcastToClients", by |-> "handleBroadcasts",
     mu |-> "h.clientsMu", obj |-> "h.clients", access |-> "read"],
    [op |-> "Close", by |-> "main",
     mu |-> "h.clientsMu", obj |-> "h.clients", access |-> "write"] }

\* The accesses to a session's LastActive once the session is in the
\* registry: processSessionDrawEvent assigns it after the send, with no
\* mutex held; sessionCleaner reads it inside its pass, under SessionsMu.
LastActiveOps ==
  { [op |-> "processSessionDrawEvent.LastActive", by |-> "conn",
     mu |-> "none", obj |-> "session.LastActive", access |-> "write"],
    [op |-> "sessionCleaner.expired", by |-> "sessionCleaner",
     mu |-> "h.SessionsMu", obj |-> "session.LastActive", access |-> "read"] }

\* The switch on drawEvent.Type in Collaborate: does the event go to the
\* history and the broadcast channel?
collaborateAccepts(e) == e.type # "ping"

\* The reply that sends the request's own event back.
pongEventEchoesRequest(drawEvent, t) == drawEvent

\* The DrawEvent handleWebSocketMessages builds to answer a ping: type
\* "pong", the connection's client id, the server's clock.
pongEvent(drawEvent, t) ==
  [type |-> "pong", clientId |-> ClientID(drawEvent.from), time |-> t,
   from |-> drawEvent.from, n |-> 0]

\* The lookup that finds every code.
sessionFoundAlways(sessions, code) == TRUE

\* session, ok := h.Sessions[code]: is there an entry under the code?  The
\* empty string is a key like any other, and no session is stored under it.
sessionFound(sessions, code) == code \in Codes /\ sessions[code] # 0

\* The test without the client count.
sessionExpiredIgnoringClients(clientCount, t, last) ==
  t - last > sessionExpiryDuration

\* The test with >= in place of >.
sessionExpiredAtThreshold(clientCount, t, last) ==
  clientCount = 0 /\ t - last >= sessionExpiryDuration

\* The sessionCleaner test on one session.
sessionExpired(clientCount, t, last) ==
  clientCount = 0 /\ t - last > sessionExpiryDuration

\* ---------------------------------------------------------------- Init

Init ==
  /\ registry = [k \in Codes |-> 0]
  /\ nsess = 0
  /\ clients = [s \in CanvasIds |-> {}]
  /\ history = [s \in CanvasIds |-> <<>>]
  /\ feed = [s \in CanvasIds |-> <<>>]
  /\ lastActive = [s \in CanvasIds |-> 0]
  /\ prog = [c \in Conns |-> "none"]
  /\ pc = [c \in Conns |-> "idle"]
  /\ status = [c \in Conns |-> ""]
  /\ csess = [c \in Conns |-> 0]
  /\ snap = [c \in Conns |-> <<>>]
  /\ cur = [c \in Conns |-> NoEvent]
  /\ wpc = [c \in Conns |-> "off"]
  /\ wheld = [c \in Conns |-> NoEvent]
  /\ inbox = [c \in Conns |-> <<>>]
  /\ bpc = "wait"
  /\ bheld = NoEvent
  /\ nmsg = 0
  /\ appendLog = [s \in CanvasIds |-> <<>>]
  /\ joinedNonEmpty = [c \in Conns |-> FALSE]
  /\ now = 0
  /\ rpc = "sleep"
  /\ rnow = 0
  /\ rtodo = {}
  /\ rcode = ""
  /\ rcount = 0
  /\ visited = NoVisit
  /\ qcode = [c \in Conns |-> ""]
  /\ sendChan = [c \in Conns |-> <<>>]
  /\ streams = [c \in Conns |-> [st \in Streams |-> NoStream]]
  /\ done = {}
  /\ panicked = FALSE
  /\ stalled = {}
  /\ crit = [t \in Tasks |-> NoCrit]
  /\ unreg = [c \in Conns |-> <<>>]
  /\ cid = [c \in Conns |-> ""]
  /\ byId = [id \in RandomStrings |-> NoConn]

\* ------------------------------------- Newcanva: sessions (handler.go)

\* CreateCanvas: a random code, a new CanvasSession, h.Sessions[code] =
\* session under the registry lock.  Nothing looks for an entry the code
\* already has.
CreateCanvas(code) ==
  /\ nsess < MaxSessions
  /\ rpc = "sleep"
  /\ nsess' = nsess + 1
  /\ registry' = [registry EXCEPT ![code] = nsess + 1]
  /\ lastActive' = [lastActive EXCEPT ![nsess + 1] = now]
  /\ UNCHANGED <<auxVars, qcode, sendChan, clients, history, feed, connVars, writerVars, inbox,
                 broadcasterVars, nmsg, ghostVars, now, reaperVars>>

\* HandleWebSocket up to the registry lookup: an empty code is a 400, an
\* unknown one a 404, and the handler returns.
HandleWebSocket_Lookup(c, code) ==
  /\ pc[c] = "idle"
  /\ rpc = "sleep"
  /\ prog' = [prog EXCEPT ![c] = "ws"]
  /\ qcode' = [qcode EXCEPT ![c] = code]
  /\ IF code = ""
       THEN /\ status' = [status EXCEPT ![c] = "400"]
            /\ pc' = [pc EXCEPT ![c] = "closed"]
            /\ UNCHANGED csess
       ELSE IF ~sessionFound(registry, code)
         THEN /\ status' = [status EXCEPT ![c] = "404"]
              /\ pc' = [pc EXCEPT ![c] = "closed"]
              /\ UNCHANGED csess
         ELSE /\ csess' = [csess EXCEPT ![c] = registry[code]]
              /\ pc' = [pc EXCEPT ![c] = "looked"]
              /\ UNCHANGED status
  /\ UNCHANGED <<auxVars, sendChan, registry, nsess, canvasVars, snap, cur, writerVars,
                 inbox, broadcasterVars, nmsg, ghostVars, now, reaperVars>>

\* JoinCanvas: the lookup of the code parameter under the registry read
\* lock; 404 when there is no entry, 200 otherwise.
JoinCanvas(c, code) ==
  /\ pc[c] = "idle"
  /\ rpc = "sleep"
  /\ prog' = [prog EXCEPT ![c] = "join"]
  /\ qcode' = [qcode EXCEPT ![c] = code]
  /\ status' = [status EXCEPT ![c] = IF sessionFound(registry, code) THEN "200" ELSE "404"]
  /\ pc' = [pc EXCEPT ![c] = "closed"]
  /\ UNCHANGED <<auxVars, sendChan, registry, nsess, canvasVars, csess, snap, cur,
                 writerVars, inbox, broadcasterVars, nmsg, ghostVars, now,
                 reaperVars>>

\* Upgrader.Upgrade fails: the handler returns before anything is registered.
HandleWebSocket_UpgradeFailed(c) ==
  /\ pc[c] = "looked"
  /\ prog[c] = "ws"
  /\ status' = [status EXCEPT ![c] = "upgrade failed"]
  /\ pc' = [pc EXCEPT ![c] = "closed"]
  /\ UNCHANGED <<auxVars, qcode, sendChan, registry, nsess, canvasVars, prog, csess, snap, cur,
                 writerVars, inbox, broadcasterVars, nmsg, ghostVars, now,
                 reaperVars>>

\* session.Clients[clientID] = client, under ClientsMu.
HandleWebSocket_Register(c) ==
  /\ pc[c] = "looked"
  /\ prog[c] = "ws"
  /\ clients' = [clients EXCEPT ![csess[c]] = @ \cup {c}]
  /\ joinedNonEmpty' = [joinedNonEmpty EXCEPT ![c] = history[csess[c]] # <<>>]
  /\ status' = [status EXCEPT ![c] = "101"]
  /\ pc' = [pc EXCEPT ![c] = "registered"]
  /\ UNCHANGED <<auxVars, qcode, sendChan, registry, nsess, history, feed, lastActive, prog, csess,
                 snap, cur, writerVars, inbox, broadcasterVars, nmsg,
                 appendLog, now, reaperVars>>

\* The history is copied under the read lock and, when not empty, written
\* to the connection; then the writer goroutine is started and the handler
\* enters sessionWebSocketReader.  Nothing else writes to this connection
\* before the writer exists, so copy and write are one step.
HandleWebSocket_SendInitialHistory(c) ==
  /\ pc[c] = "registered"
  /\ prog[c] = "ws"
  /\ LET historyCopy == copyHistory(history[csess[c]]) IN
       inbox' = [inbox EXCEPT ![c] =
         IF Len(historyCopy) > 0 THEN Append(@, HistoryMsg(historyCopy)) ELSE @]
  /\ wpc' = [wpc EXCEPT ![c] = "wait"]
  /\ pc' = [pc EXCEPT ![c] = "reading"]
  /\ UNCHANGED <<auxVars, qcode, sendChan, registry, nsess, canvasVars, prog, status, csess, snap, cur,
                 wheld, broadcasterVars, nmsg, ghostVars, now, reaperVars>>

\* sessionWebSocketReader reads a request that carries a DrawEvent and calls
\* processSessionDrawEvent, which sets the client id and appends the event
\* under HistoryMu.
processSessionDrawEvent_Append(c, type, pid) ==
  /\ pc[c] = "reading"
  /\ prog[c] = "ws"
  /\ nmsg < MaxMsgs
  /\ LET event == SetClientID(Payload(type, pid, c, nmsg + 1), ClientID(c)) IN
       /\ cur' = [cur EXCEPT ![c] = event]
       /\ history' = [history EXCEPT ![csess[c]] = appendSessionHistory(@, event)]
       /\ appendLog' = [appendLog EXCEPT ![csess[c]] = Append(@, event)]
  /\ nmsg' = nmsg + 1
  /\ pc' = [pc EXCEPT ![c] = "appended"]
  /\ UNCHANGED <<auxVars, qcode, sendChan, registry, nsess, clients, feed, lastActive, prog, status,
                 csess, snap, writerVars, inbox, broadcasterVars,
                 joinedNonEmpty, now, reaperVars>>

\* A send of the event to the channel of every session.
processSessionDrawEvent_BroadcastToAll(c) ==
  /\ pc[c] = "appended"
  /\ prog[c] = "ws"
  /\ feed' = [s \in CanvasIds |->
       IF s \in SessionIds THEN Append(feed[s], cur[c]) ELSE feed[s]]
  /\ pc' = [pc EXCEPT ![c] = "published"]
  /\ UNCHANGED <<auxVars, qcode, sendChan, registry, nsess, clients, history,
                 lastActive, prog, status, csess, snap, cur, writerVars, inbox,
                 broadcasterVars, nmsg, ghostVars, now, reaperVars>>

\* session.Broadcast <- event: blocks while the channel holds BroadcastCap
\* events.
processSessionDrawEvent_Broadcast(c) ==
  /\ pc[c] = "appended"
  /\ prog[c] = "ws"
  /\ Len(feed[csess[c]]) < BroadcastCap
  /\ feed' = [feed EXCEPT ![csess[c]] = Append(@, cur[c])]
  /\ pc' = [pc EXCEPT ![c] = "published"]
  /\ UNCHANGED <<auxVars, qcode, sendChan, registry, nsess, clients, history, lastActive, prog, status,
                 csess, snap, cur, writerVars, inbox, broadcasterVars, nmsg,
                 ghostVars, now, reaperVars>>

\* session.LastActive = time.Now(), then back to ReadJSON.
processSessionDrawEvent_LastActive(c) ==
  /\ pc[c] = "published"
  /\ prog[c] = "ws"
  /\ lastActive' = [lastActive EXCEPT ![csess[c]] = now]
  /\ pc' = [pc EXCEPT ![c] = "reading"]
  /\ UNCHANGED <<auxVars, qcode, sendChan, registry, nsess, clients, history, feed, prog, status,
                 csess, snap, cur, writerVars, inbox, broadcasterVars, nmsg,
                 ghostVars, now, reaperVars>>

\* ReadJSON fails (the peer closed): sessionWebSocketReader returns and the
\* deferred function deletes the client and closes the connection.
sessionWebSocketReader_Return(c) ==
  /\ pc[c] = "reading"
  /\ prog[c] = "ws"
  /\ clients' = [clients EXCEPT ![csess[c]] = @ \ {c}]
  /\ pc' = [pc EXCEPT ![c] = "closed"]
  /\ UNCHANGED <<auxVars, qcode, sendChan, registry, nsess, history, feed, lastActive, prog, status,
                 csess, snap, cur, writerVars, inbox, broadcasterVars, nmsg,
                 ghostVars, now, reaperVars>>

\* ReadJSON returns an error that is not a close error (the message does not
\* decode): sessionWebSocketReader logs it and returns, and the deferred
\* function deletes the client and closes the connection.
sessionWebSocketReader_DecodeError(c) ==
  /\ pc[c] = "reading"
  /\ prog[c] = "ws"
  /\ nmsg < MaxMsgs
  /\ cur' = [cur EXCEPT ![c] = Malformed(c, nmsg + 1)]
  /\ nmsg' = nmsg + 1
  /\ clients' = [clients EXCEPT ![csess[c]] = @ \ {c}]
  /\ pc' = [pc EXCEPT ![c] = "closed"]
  /\ UNCHANGED <<auxVars, qcode, sendChan, registry, nsess, history, feed,
                 lastActive, prog, status, csess, snap, writerVars, inbox,
                 broadcasterVars, ghostVars, now, reaperVars>>

\* sessionBroadcastWriter: for event := range session.Broadcast.  A channel
\* hands each event to one receiver.
sessionBroadcastWriter_Receive(c) ==
  /\ wpc[c] = "wait"
  /\ prog[c] = "ws"
  /\ feed[csess[c]] # <<>>
  /\ wheld' = [wheld EXCEPT ![c] = Head(feed[csess[c]])]
  /\ feed' = [feed EXCEPT ![csess[c]] = Tail(@)]
  /\ wpc' = [wpc EXCEPT ![c] = "write"]
  /\ UNCHANGED <<auxVars, qcode, sendChan, registry, nsess, clients, history, lastActive, connVars,
                 inbox, broadcasterVars, nmsg, ghostVars, now, reaperVars>>

\* A WriteJSON that succeeds whatever the state of the connection.
sessionBroadcastWriter_WriteIgnoresClose(c) ==
  /\ wpc[c] = "write"
  /\ prog[c] = "ws"
  /\ inbox' = [inbox EXCEPT ![c] = Append(@, EventMsg(wheld[c]))]
  /\ wpc' = [wpc EXCEPT ![c] = "wait"]
  /\ wheld' = [wheld EXCEPT ![c] = NoEvent]
  /\ UNCHANGED <<auxVars, qcode, sendChan, registry, nsess, canvasVars,
                 connVars, broadcasterVars, nmsg, ghostVars, now, reaperVars>>

\* WriteJSON of the event: on a closed connection it fails and the writer
\* returns, the event still in its hands; towards a peer that has stopped
\* reading it does not return.
sessionBroadcastWriter_Write(c) ==
  /\ wpc[c] = "write"
  /\ prog[c] = "ws"
  /\ pc[c] = "closed" \/ c \notin stalled
  /\ IF pc[c] = "closed"
       THEN /\ wpc' = [wpc EXCEPT ![c] = "done"]
            /\ UNCHANGED <<inbox, wheld>>
       ELSE /\ inbox' = [inbox EXCEPT ![c] = Append(@, EventMsg(wheld[c]))]
            /\ wpc' = [wpc EXCEPT ![c] = "wait"]
            /\ wheld' = [wheld EXCEPT ![c] = NoEvent]
  /\ UNCHANGED <<auxVars, qcode, sendChan, registry, nsess, canvasVars, connVars, broadcasterVars,
                 nmsg, ghostVars, now, reaperVars>>


\* sessionCleaner wakes on its ticker, reads the clock, takes the registry
\* lock and starts ranging over h.Sessions.
sessionCleaner_Tick ==
  /\ rpc = "sleep"
  /\ rnow' = now
  /\ rtodo' = {k \in Codes : registry[k] # 0}
  /\ rpc' = "range"
  /\ UNCHANGED <<auxVars, qcode, sendChan, registry, nsess, canvasVars, connVars, writerVars, inbox,
                 broadcasterVars, nmsg, ghostVars, now, rcode, rcount, visited>>

\* clientCount := len(session.Clients), under the session's read lock.
sessionCleaner_Count(code) ==
  /\ rpc = "range"
  /\ code \in rtodo
  /\ rcode' = code
  /\ rcount' = Cardinality(clients[registry[code]])
  /\ rtodo' = rtodo \ {code}
  /\ rpc' = "test"
  /\ UNCHANGED <<auxVars, qcode, sendChan, registry, nsess, canvasVars, connVars, writerVars, inbox,
                 broadcasterVars, nmsg, ghostVars, now, rnow, visited>>

\* The test on clientCount and LastActive, and the delete.
sessionCleaner_Delete ==
  /\ rpc = "test"
  /\ LET s == registry[rcode]
         expired == sessionExpired(rcount, rnow, lastActive[s]) IN
       /\ registry' = [registry EXCEPT ![rcode] = IF expired THEN 0 ELSE @]
       /\ visited' = [code |-> rcode, s |-> s, count |-> rcount,
                       idle |-> rnow - lastActive[s], removed |-> expired]
  /\ rcode' = ""
  /\ rcount' = 0
  /\ rpc' = "range"
  /\ UNCHANGED <<auxVars, qcode, sendChan, nsess, canvasVars, connVars, writerVars, inbox,
                 broadcasterVars, nmsg, ghostVars, now, rnow, rtodo>>

\* The name of a session's Done channel among the closed channels.
SessionDone(s) == "session" \o ToString(s)

\* The pass that closes the Done channel of an expired session and leaves
\* its entry in the registry.
sessionCleaner_CloseKeepsEntry ==
  /\ rpc = "test"
  /\ LET s == registry[rcode]
         expired == sessionExpired(rcount, rnow, lastActive[s]) IN
       /\ done' = IF expired THEN done \cup {SessionDone(s)} ELSE done
       /\ panicked' = (panicked \/ (expired /\ SessionDone(s) \in done))
       /\ visited' = [code |-> rcode, s |-> s, count |-> rcount,
                       idle |-> rnow - lastActive[s], removed |-> expired]
  /\ rcode' = ""
  /\ rcount' = 0
  /\ rpc' = "range"
  /\ UNCHANGED <<cid, byId, streams, stalled, crit, unreg, qcode, sendChan,
                 registry, nsess, canvasVars, connVars, writerVars, inbox,
                 broadcasterVars, nmsg, ghostVars, now, rnow, rtodo>>

\* sessionCleaner of newcanva: the test on clientCount and LastActive, then
\* close(session.Done) and the delete, all under sessionsMu.
sessionCleaner_CloseDelete ==
  /\ rpc = "test"
  /\ LET s == registry[rcode]
         expired == sessionExpired(rcount, rnow, lastActive[s]) IN
       /\ done' = IF expired THEN done \cup {SessionDone(s)} ELSE done
       /\ panicked' = (panicked \/ (expired /\ SessionDone(s) \in done))
       /\ registry' = [registry EXCEPT ![rcode] = IF expired THEN 0 ELSE @]
       /\ visited' = [code |-> rcode, s |-> s, count |-> rcount,
                       idle |-> rnow - lastActive[s], removed |-> expired]
  /\ rcode' = ""
  /\ rcount' = 0
  /\ rpc' = "range"
  /\ UNCHANGED <<cid, byId, streams, stalled, crit, unreg, qcode, sendChan,
                 nsess, canvasVars, connVars, writerVars, inbox,
                 broadcasterVars, nmsg, ghostVars, now, rnow, rtodo>>

\* The range is over: the registry lock is released until the next tick.
sessionCleaner_Unlock ==
  /\ rpc = "range"
  /\ rtodo = {}
  /\ rpc' = "sleep"
  /\ visited' = NoVisit
  /\ UNCHANGED <<auxVars, qcode, sendChan, registry, nsess, canvasVars, connVars,
                 writerVars, inbox, broadcasterVars, nmsg, ghostVars, now,
                 rnow, rtodo, rcode, rcount>>

\* A minute passes.
Clock ==
  /\ now < MaxNow
  /\ now' = now + sessionCleanerInterval
  /\ UNCHANGED <<auxVars, qcode, sendChan, registry, nsess, canvasVars, connVars, writerVars, inbox,
                 broadcasterVars, nmsg, ghostVars, reaperVars>>

\* --------------------------- canvaxservice: Collaborate (part_006)

\* Collaborate: registerClient(clientID, stream).
Collaborate_registerClient(c) ==
  /\ pc[c] = "idle"
  /\ prog' = [prog EXCEPT ![c] = "bidi"]
  /\ clients' = [clients EXCEPT ![0] = @ \cup {c}]
  /\ joinedNonEmpty' = [joinedNonEmpty EXCEPT ![c] = history[0] # <<>>]
  /\ pc' = [pc EXCEPT ![c] = "registered"]
  /\ UNCHANGED <<auxVars, qcode, sendChan, registry, nsess, history, feed, lastActive, status, csess,
                 snap, cur, writerVars, inbox, broadcasterVars, nmsg,
                 appendLog, now, reaperVars>>

\* sendInitialHistory: the copy under the read lock.
sendInitialHistory_Copy(c) ==
  /\ pc[c] = "registered"
  /\ prog[c] = "bidi"
  /\ snap' = [snap EXCEPT ![c] = copyHistory(history[0])]
  /\ pc' = [pc EXCEPT ![c] = "copied"]
  /\ UNCHANGED <<auxVars, qcode, sendChan, registry, nsess, canvasVars, prog, status, csess, cur,
                 writerVars, inbox, broadcasterVars, nmsg, ghostVars, now,
                 reaperVars>>

\* sendInitialHistory: stream.Send of the copy, whatever its length.
sendInitialHistory_Send(c) ==
  /\ pc[c] = "copied"
  /\ prog[c] = "bidi"
  /\ c \notin stalled
  /\ inbox' = [inbox EXCEPT ![c] = Append(@, HistoryMsg(snap[c]))]
  /\ snap' = [snap EXCEPT ![c] = <<>>]
  /\ pc' = [pc EXCEPT ![c] = "reading"]
  /\ UNCHANGED <<auxVars, qcode, sendChan, registry, nsess, canvasVars, prog, status, csess, cur,
                 writerVars, broadcasterVars, nmsg, ghostVars, now,
                 reaperVars>>

\* stream.Receive returns a message with a DrawEvent: the client id is set,
\* a ping is only logged, any other event goes through addToHistory.
Collaborate_Receive(c, type, pid) ==
  /\ pc[c] = "reading"
  /\ prog[c] = "bidi"
  /\ nmsg < MaxMsgs
  /\ LET drawEvent == SetClientID(Payload(type, pid, c, nmsg + 1), ClientID(c)) IN
       /\ cur' = [cur EXCEPT ![c] = drawEvent]
       /\ IF collaborateAccepts(drawEvent)
            THEN /\ history' = [history EXCEPT ![0] = addToHistory(@, drawEvent)]
                 /\ appendLog' = [appendLog EXCEPT ![0] = Append(@, drawEvent)]
                 /\ pc' = [pc EXCEPT ![c] = "appended"]
            ELSE UNCHANGED <<history, appendLog, pc>>
  /\ nmsg' = nmsg + 1
  /\ UNCHANGED <<auxVars, qcode, sendChan, registry, nsess, clients, feed, lastActive, prog, status,
                 csess, snap, writerVars, inbox, broadcasterVars,
                 joinedNonEmpty, now, reaperVars>>

\* h.broadcast <- drawEvent: blocks while the channel holds BroadcastCap
\* events.  A clear event goes on to clearHistory.
Collaborate_Broadcast(c) ==
  /\ pc[c] = "appended"
  /\ prog[c] = "bidi"
  /\ Len(feed[0]) < BroadcastCap
  /\ feed' = [feed EXCEPT ![0] = Append(@, cur[c])]
  /\ pc' = [pc EXCEPT ![c] = IF cur[c].type = "clear" THEN "clearing" ELSE "reading"]
  /\ UNCHANGED <<auxVars, qcode, sendChan, registry, nsess, clients, history, lastActive, prog, status,
                 csess, snap, cur, writerVars, inbox, broadcasterVars, nmsg,
                 ghostVars, now, reaperVars>>

\* h.clearHistory(drawEvent).
Collaborate_clearHistory(c) ==
  /\ pc[c] = "clearing"
  /\ prog[c] = "bidi"
  /\ history' = [history EXCEPT ![0] = clearHistory(@, cur[c])]
  /\ pc' = [pc EXCEPT ![c] = "reading"]
  /\ UNCHANGED <<auxVars, qcode, sendChan, registry, nsess, clients, feed, lastActive, prog, status,
                 csess, snap, cur, writerVars, inbox, broadcasterVars, nmsg,
                 ghostVars, now, reaperVars>>

\* stream.Receive fails or the context is cancelled: Collaborate returns and
\* the deferred unregisterClient runs.
Collaborate_Return(c) ==
  /\ pc[c] = "reading"
  /\ prog[c] = "bidi"
  /\ clients' = [clients EXCEPT ![0] = @ \ {c}]
  /\ pc' = [pc EXCEPT ![c] = "closed"]
  /\ UNCHANGED <<auxVars, qcode, sendChan, registry, nsess, history, feed, lastActive, prog, status,
                 csess, snap, cur, writerVars, inbox, broadcasterVars, nmsg,
                 ghostVars, now, reaperVars>>

\* handleBroadcasts: event := <-h.broadcast.
handleBroadcasts_Receive ==
  /\ bpc = "wait"
  /\ feed[0] # <<>>
  /\ bheld' = Head(feed[0])
  /\ feed' = [feed EXCEPT ![0] = Tail(@)]
  /\ bpc' = "send"
  /\ UNCHANGED <<auxVars, qcode, sendChan, registry, nsess, clients, history, lastActive, connVars,
                 writerVars, inbox, nmsg, ghostVars, now, reaperVars>>

\* broadcastToClients: under the clients read lock, stream.Send to every
\* entry of h.clients, one after the other; the Send to a peer that has
\* stopped reading does not return, and the round does not end.
broadcastToClients ==
  /\ bpc = "send"
  /\ clients[0] \cap stalled = {}
  /\ inbox' = [c \in Conns |->
       IF c \in clients[0] THEN Append(inbox[c], EventMsg(bheld)) ELSE inbox[c]]
  /\ bheld' = NoEvent
  /\ bpc' = "wait"
  /\ UNCHANGED <<auxVars, qcode, sendChan, registry, nsess, canvasVars, connVars, writerVars, nmsg,
                 ghostVars, now, reaperVars>>

\* ------------------ canvaxservice: h.clients by client id (part_006)

\* Collaborate: clientID := util.Generaterandomstring(8).  The generator
\* draws from one unlocked rand.Rand shared by all handlers: nothing keeps
\* two calls from returning the same string.
Collaborate_Generaterandomstring(c, id) ==
  /\ pc[c] = "idle"
  /\ prog' = [prog EXCEPT ![c] = "bidi"]
  /\ cid' = [cid EXCEPT ![c] = id]
  /\ pc' = [pc EXCEPT ![c] = "named"]
  /\ UNCHANGED <<byId, streams, done, panicked, stalled, crit, unreg, qcode,
                 sendChan, registry, nsess, canvasVars, status, csess, snap,
                 cur, writerVars, inbox, broadcasterVars, nmsg, ghostVars,
                 now, reaperVars>>

\* registerClient: h.clients[id] = &client{id, stream}, no test for an
\* entry already under id.
registerClient(c) ==
  /\ pc[c] = "named"
  /\ byId' = [byId EXCEPT ![cid[c]] = c]
  /\ joinedNonEmpty' = [joinedNonEmpty EXCEPT ![c] = history[0] # <<>>]
  /\ pc' = [pc EXCEPT ![c] = "registered"]
  /\ UNCHANGED <<cid, streams, done, panicked, stalled, crit, unreg, qcode,
                 sendChan, registry, nsess, canvasVars, prog, status, csess,
                 snap, cur, writerVars, inbox, broadcasterVars, nmsg,
                 appendLog, now, reaperVars>>

\* The deferred unregisterClient(clientID) when Collaborate returns, from
\* the receive loop or on a failed sendInitialHistory: delete(h.clients, id).
Collaborate_unregisterClient(c) ==
  /\ pc[c] \in {"copied", "reading"}
  /\ prog[c] = "bidi"
  /\ cid[c] # ""
  /\ byId' = [byId EXCEPT ![cid[c]] = NoConn]
  /\ pc' = [pc EXCEPT ![c] = "closed"]
  /\ UNCHANGED <<cid, streams, done, panicked, stalled, crit, unreg, qcode,
                 sendChan, registry, nsess, canvasVars, prog, status, csess,
                 snap, cur, writerVars, inbox, broadcasterVars, nmsg,
                 ghostVars, now, reaperVars>>

\* broadcastToClients over the entries of h.clients: one stream.Send per key.
broadcastToClients_Entries ==
  /\ bpc = "send"
  /\ inbox' = [c \in Conns |->
       IF \E id \in RandomStrings : byId[id] = c
         THEN Append(inbox[c], EventMsg(bheld)) ELSE inbox[c]]
  /\ bheld' = NoEvent
  /\ bpc' = "wait"
  /\ UNCHANGED <<auxVars, qcode, sendChan, registry, nsess, canvasVars,
                 connVars, writerVars, nmsg, ghostVars, now, reaperVars>>

NextIds ==
  \/ \E c \in Conns :
       \/ \E id \in RandomStrings : Collaborate_Generaterandomstring(c, id)
       \/ registerClient(c)
       \/ sendInitialHistory_Copy(c)
       \/ sendInitialHistory_Send(c)
       \/ Collaborate_Receive(c, "draw", "")
       \/ Collaborate_Broadcast(c)
       \/ Collaborate_unregisterClient(c)
  \/ handleBroadcasts_Receive
  \/ broadcastToClients_Entries

SpecIds == Init /\ [][NextIds]_vars

\* ------------------- newcanva: sessions over WebTransport (part_002)

\* HandleWebTransport: the code parameter and the lookup under sessionsMu.
HandleWebTransport_Lookup(c, code) ==
  /\ pc[c] = "idle"
  /\ rpc = "sleep"
  /\ prog' = [prog EXCEPT ![c] = "wt"]
  /\ qcode' = [qcode EXCEPT ![c] = code]
  /\ IF code = ""
       THEN /\ status' = [status EXCEPT ![c] = "400"]
            /\ pc' = [pc EXCEPT ![c] = "closed"]
            /\ UNCHANGED csess
       ELSE IF ~sessionFound(registry, code)
         THEN /\ status' = [status EXCEPT ![c] = "404"]
              /\ pc' = [pc EXCEPT ![c] = "closed"]
              /\ UNCHANGED csess
         ELSE /\ csess' = [csess EXCEPT ![c] = registry[code]]
              /\ pc' = [pc EXCEPT ![c] = "looked"]
              /\ UNCHANGED status
  /\ UNCHANGED <<auxVars, sendChan, registry, nsess, canvasVars, snap, cur,
                 writerVars, inbox, broadcasterVars, nmsg, ghostVars, now,
                 reaperVars>>

\* wtServer.Upgrade fails: 500, nothing was registered.
HandleWebTransport_UpgradeFailed(c) ==
  /\ pc[c] = "looked"
  /\ prog[c] = "wt"
  /\ status' = [status EXCEPT ![c] = "upgrade failed"]
  /\ pc' = [pc EXCEPT ![c] = "closed"]
  /\ UNCHANGED <<auxVars, qcode, sendChan, registry, nsess, canvasVars, prog,
                 csess, snap, cur, writerVars, inbox, broadcasterVars, nmsg,
                 ghostVars, now, reaperVars>>

\* session.Clients[clientID] = cl, under ClientsMu.
HandleWebTransport_Register(c) ==
  /\ pc[c] = "looked"
  /\ prog[c] = "wt"
  /\ clients' = [clients EXCEPT ![csess[c]] = @ \cup {c}]
  /\ joinedNonEmpty' = [joinedNonEmpty EXCEPT ![c] = history[csess[c]] # <<>>]
  /\ status' = [status EXCEPT ![c] = "200"]
  /\ pc' = [pc EXCEPT ![c] = "registered"]
  /\ UNCHANGED <<auxVars, qcode, sendChan, registry, nsess, history, feed,
                 lastActive, prog, csess, snap, cur, writerVars, inbox,
                 broadcasterVars, nmsg, appendLog, now, reaperVars>>

\* The history is copied under the read lock and, when not empty, written
\* to a stream of its own; then handleSessionSend is started and the handler
\* enters handleSessionReceive.
HandleWebTransport_SendInitialHistory(c) ==
  /\ pc[c] = "registered"
  /\ prog[c] = "wt"
  /\ LET historyCopy == copyHistory(history[csess[c]]) IN
       inbox' = [inbox EXCEPT ![c] =
         IF Len(historyCopy) > 0 THEN Append(@, HistoryMsg(historyCopy)) ELSE @]
  /\ wpc' = [wpc EXCEPT ![c] = "wait"]
  /\ pc' = [pc EXCEPT ![c] = "reading"]
  /\ UNCHANGED <<auxVars, qcode, sendChan, registry, nsess, canvasVars, prog,
                 status, csess, snap, cur, wheld, broadcasterVars, nmsg,
                 ghostVars, now, reaperVars>>

\* handleSessionReceive: AcceptStream returns a stream and a goroutine is
\* started for it.
handleSessionReceive_AcceptStream(c, st) ==
  /\ pc[c] = "reading"
  /\ prog[c] = "wt"
  /\ streams[c][st].pc = "none"
  /\ streams' = [streams EXCEPT ![c][st].pc = "reading"]
  /\ UNCHANGED <<cid, byId, done, panicked, stalled, crit, unreg, qcode, sendChan, registry,
                 nsess, canvasVars, connVars, writerVars, inbox,
                 broadcasterVars, nmsg, ghostVars, now, reaperVars>>

\* The goroutine of stream st: s.Read returns a request that carries a
\* DrawEvent; processSessionDrawEvent sets the client id.
handleSessionReceive_Read(c, st, type, pid) ==
  /\ pc[c] = "reading"
  /\ prog[c] = "wt"
  /\ streams[c][st].pc = "reading"
  /\ nmsg < MaxMsgs
  /\ streams' = [streams EXCEPT ![c][st] =
       [pc |-> "received",
        cur |-> SetClientID(Payload(type, pid, c, nmsg + 1), ClientID(c))]]
  /\ nmsg' = nmsg + 1
  /\ UNCHANGED <<cid, byId, done, panicked, stalled, crit, unreg, qcode, sendChan, registry,
                 nsess, canvasVars, connVars, writerVars, inbox,
                 broadcasterVars, ghostVars, now, reaperVars>>

\* processSessionDrawEvent in the goroutine of stream st: the append under
\* HistoryMu.
handleSessionReceive_Append(c, st) ==
  /\ streams[c][st].pc = "received"
  /\ history' = [history EXCEPT ![csess[c]] =
       appendSessionHistory(@, streams[c][st].cur)]
  /\ appendLog' = [appendLog EXCEPT ![csess[c]] = Append(@, streams[c][st].cur)]
  /\ streams' = [streams EXCEPT ![c][st].pc = "appended"]
  /\ UNCHANGED <<cid, byId, done, panicked, stalled, crit, unreg, qcode, sendChan, registry,
                 nsess, clients, feed, lastActive, connVars, writerVars,
                 inbox, broadcasterVars, nmsg, joinedNonEmpty, now,
                 reaperVars>>

\* session.Broadcast <- event in the goroutine of stream st.
handleSessionReceive_Broadcast(c, st) ==
  /\ streams[c][st].pc = "appended"
  /\ Len(feed[csess[c]]) < BroadcastCap
  /\ feed' = [feed EXCEPT ![csess[c]] = Append(@, streams[c][st].cur)]
  /\ streams' = [streams EXCEPT ![c][st].pc = "published"]
  /\ UNCHANGED <<cid, byId, done, panicked, stalled, crit, unreg, qcode, sendChan, registry,
                 nsess, clients, history, lastActive, connVars, writerVars,
                 inbox, broadcasterVars, nmsg, ghostVars, now, reaperVars>>

\* session.LastActive = time.Now(), then back to s.Read.
handleSessionReceive_LastActive(c, st) ==
  /\ streams[c][st].pc = "published"
  /\ lastActive' = [lastActive EXCEPT ![csess[c]] = now]
  /\ streams' = [streams EXCEPT ![c][st] = [pc |-> "reading", cur |-> NoEvent]]
  /\ UNCHANGED <<cid, byId, done, panicked, stalled, crit, unreg, qcode, sendChan, registry,
                 nsess, clients, history, feed, connVars, writerVars, inbox,
                 broadcasterVars, nmsg, ghostVars, now, reaperVars>>

\* AcceptStream fails (the session's context is done): handleSessionReceive
\* returns, the deferred functions delete the client and close the session.
\* A stream goroutine inside processSessionDrawEvent goes on to its end.
handleSessionReceive_Return(c) ==
  /\ pc[c] = "reading"
  /\ prog[c] = "wt"
  /\ clients' = [clients EXCEPT ![csess[c]] = @ \ {c}]
  /\ pc' = [pc EXCEPT ![c] = "closed"]
  /\ UNCHANGED <<auxVars, qcode, sendChan, registry, nsess, history, feed,
                 lastActive, prog, status, csess, snap, cur, writerVars,
                 inbox, broadcasterVars, nmsg, ghostVars, now, reaperVars>>

\* handleSessionSend: the select takes an event from session.Broadcast.
handleSessionSend_Receive(c) ==
  /\ wpc[c] = "wait"
  /\ prog[c] = "wt"
  /\ feed[csess[c]] # <<>>
  /\ wheld' = [wheld EXCEPT ![c] = Head(feed[csess[c]])]
  /\ feed' = [feed EXCEPT ![csess[c]] = Tail(@)]
  /\ wpc' = [wpc EXCEPT ![c] = "write"]
  /\ UNCHANGED <<auxVars, qcode, sendChan, registry, nsess, clients, history,
                 lastActive, connVars, inbox, broadcasterVars, nmsg,
                 ghostVars, now, reaperVars>>

\* handleSessionSend: OpenStream and Write; when the session is closed
\* OpenStream fails and the loop continues.
handleSessionSend_Write(c) ==
  /\ wpc[c] = "write"
  /\ prog[c] = "wt"
  /\ inbox' = [inbox EXCEPT ![c] =
       IF pc[c] = "closed" THEN @ ELSE Append(@, EventMsg(wheld[c]))]
  /\ wheld' = [wheld EXCEPT ![c] = NoEvent]
  /\ wpc' = [wpc EXCEPT ![c] = "wait"]
  /\ UNCHANGED <<auxVars, qcode, sendChan, registry, nsess, canvasVars,
                 connVars, broadcasterVars, nmsg, ghostVars, now, reaperVars>>

\* handleSessionSend: the select takes ctx.Done and the goroutine returns.
handleSessionSend_Done(c) ==
  /\ wpc[c] = "wait"
  /\ prog[c] = "wt"
  /\ pc[c] = "closed"
  /\ wpc' = [wpc EXCEPT ![c] = "done"]
  /\ UNCHANGED <<auxVars, qcode, sendChan, registry, nsess, canvasVars,
                 connVars, wheld, inbox, broadcasterVars, nmsg, ghostVars,
                 now, reaperVars>>

\* The peer of a connection stops reading: from now on a write to it does
\* not return.
PeerStalls(c) ==
  /\ pc[c] \notin {"idle", "closed"}
  /\ c \notin stalled
  /\ stalled' = stalled \cup {c}
  /\ UNCHANGED <<cid, byId, streams, done, panicked, crit, unreg, qcode, sendChan, registry,
                 nsess, canvasVars, connVars, writerVars, inbox,
                 broadcasterVars, nmsg, ghostVars, now, reaperVars>>

\* ------------------- newcanva: the WebSocket fallback (part_002)

\* HandleWebSocket of newcanva: upgrader.Upgrade fails and the handler
\* returns.
FallbackWebSocket_UpgradeFailed(c) ==
  /\ pc[c] = "idle"
  /\ prog' = [prog EXCEPT ![c] = "gws"]
  /\ status' = [status EXCEPT ![c] = "upgrade failed"]
  /\ pc' = [pc EXCEPT ![c] = "closed"]
  /\ UNCHANGED <<auxVars, qcode, sendChan, registry, nsess, canvasVars, csess, snap,
                 cur, writerVars, inbox, broadcasterVars, nmsg, ghostVars,
                 now, reaperVars>>

\* HandleWebSocket of newcanva: the upgrade, then registerClient.
FallbackWebSocket_registerClient(c) ==
  /\ pc[c] = "idle"
  /\ prog' = [prog EXCEPT ![c] = "gws"]
  /\ status' = [status EXCEPT ![c] = "101"]
  /\ clients' = [clients EXCEPT ![0] = @ \cup {c}]
  /\ joinedNonEmpty' = [joinedNonEmpty EXCEPT ![c] = history[0] # <<>>]
  /\ pc' = [pc EXCEPT ![c] = "registered"]
  /\ UNCHANGED <<auxVars, qcode, sendChan, registry, nsess, history, feed, lastActive,
                 csess, snap, cur, writerVars, inbox, broadcasterVars, nmsg,
                 appendLog, now, reaperVars>>

\* sendInitialHistory of newcanva: the copy under the read lock goes into
\* the SendChan of the WebTransportSession made for this connection (empty,
\* capacity 100); nothing receives from that channel.
FallbackWebSocket_sendInitialHistory(c) ==
  /\ pc[c] = "registered"
  /\ prog[c] = "gws"
  /\ sendChan' = [sendChan EXCEPT ![c] = Append(@, HistoryMsg(copyHistory(history[0])))]
  /\ pc' = [pc EXCEPT ![c] = "reading"]
  /\ UNCHANGED <<auxVars, qcode, registry, nsess, canvasVars, prog, status, csess, snap,
                 cur, writerVars, inbox, broadcasterVars, nmsg, ghostVars,
                 now, reaperVars>>

\* handleWebSocketMessages: a message with a DrawEvent is read and the client
\* id set; a ping is answered on the connection with a pong, any other
\* event goes through addToHistory.
handleWebSocketMessages_Receive(c, type, pid) ==
  /\ pc[c] = "reading"
  /\ prog[c] = "gws"
  /\ c \notin done
  /\ nmsg < MaxMsgs
  /\ LET drawEvent == SetClientID(Payload(type, pid, c, nmsg + 1), ClientID(c)) IN
       /\ cur' = [cur EXCEPT ![c] = drawEvent]
       /\ IF drawEvent.type = "ping"
            THEN /\ inbox' = [inbox EXCEPT ![c] = Append(@, EventMsg(pongEvent(drawEvent, now)))]
                 /\ UNCHANGED <<history, appendLog, pc>>
            ELSE /\ history' = [history EXCEPT ![0] = addToHistory(@, drawEvent)]
                 /\ appendLog' = [appendLog EXCEPT ![0] = Append(@, drawEvent)]
                 /\ pc' = [pc EXCEPT ![c] = "appended"]
                 /\ UNCHANGED inbox
  /\ nmsg' = nmsg + 1
  /\ UNCHANGED <<auxVars, qcode, sendChan, registry, nsess, clients, feed, lastActive,
                 prog, status, csess, snap, writerVars, broadcasterVars,
                 joinedNonEmpty, now, reaperVars>>

\* h.broadcast <- request.DrawEvent: blocks while the channel holds
\* BroadcastCap events.  A clear event goes on to clearHistory.
handleWebSocketMessages_Broadcast(c) ==
  /\ pc[c] = "appended"
  /\ prog[c] = "gws"
  /\ Len(feed[0]) < BroadcastCap
  /\ feed' = [feed EXCEPT ![0] = Append(@, cur[c])]
  /\ pc' = [pc EXCEPT ![c] = IF cur[c].type = "clear" THEN "clearing" ELSE "reading"]
  /\ UNCHANGED <<auxVars, qcode, sendChan, registry, nsess, clients, history,
                 lastActive, prog, status, csess, snap, cur, writerVars,
                 inbox, broadcasterVars, nmsg, ghostVars, now, reaperVars>>

\* h.clearHistory(request.DrawEvent).
handleWebSocketMessages_clearHistory(c) ==
  /\ pc[c] = "clearing"
  /\ prog[c] = "gws"
  /\ history' = [history EXCEPT ![0] = clearHistory(@, cur[c])]
  /\ pc' = [pc EXCEPT ![c] = "reading"]
  /\ UNCHANGED <<auxVars, qcode, sendChan, registry, nsess, clients, feed, lastActive,
                 prog, status, csess, snap, cur, writerVars, inbox,
                 broadcasterVars, nmsg, ghostVars, now, reaperVars>>

\* json.Unmarshal fails: the message is logged and the loop continues.
handleWebSocketMessages_DecodeError(c) ==
  /\ pc[c] = "reading"
  /\ prog[c] = "gws"
  /\ c \notin done
  /\ nmsg < MaxMsgs
  /\ cur' = [cur EXCEPT ![c] = Malformed(c, nmsg + 1)]
  /\ nmsg' = nmsg + 1
  /\ UNCHANGED <<auxVars, qcode, sendChan, registry, nsess, canvasVars, prog,
                 pc, status, csess, snap, writerVars, inbox, broadcasterVars,
                 ghostVars, now, reaperVars>>

\* conn.ReadMessage fails: handleWebSocketMessages closes the connection and
\* returns, and the deferred unregisterClient runs.
handleWebSocketMessages_Return(c) ==
  /\ pc[c] = "reading"
  /\ prog[c] = "gws"
  /\ LET r == unregisterClient(clients[0], done, c) IN
       /\ clients' = [clients EXCEPT ![0] = r.clients]
       /\ done' = r.done
       /\ panicked' = (panicked \/ r.panic)
       /\ unreg' = [unreg EXCEPT ![c] = Append(@, r.found)]
  /\ pc' = [pc EXCEPT ![c] = "closed"]
  /\ UNCHANGED <<cid, byId, streams, stalled, crit, qcode, sendChan, registry, nsess,
                 history, feed, lastActive, prog, status, csess, snap, cur,
                 writerVars, inbox, broadcasterVars, nmsg, ghostVars, now,
                 reaperVars>>

\* unregisterClient is called once more with the id of a connection whose
\* handler has returned.
unregisterClient_Call(c) ==
  /\ pc[c] = "closed"
  /\ prog[c] = "gws"
  /\ Len(unreg[c]) < MaxUnregister
  /\ LET r == unregisterClient(clients[0], done, c) IN
       /\ clients' = [clients EXCEPT ![0] = r.clients]
       /\ done' = r.done
       /\ panicked' = (panicked \/ r.panic)
       /\ unreg' = [unreg EXCEPT ![c] = Append(@, r.found)]
  /\ UNCHANGED <<cid, byId, streams, stalled, crit, qcode, sendChan, registry, nsess,
                 history, feed, lastActive, connVars, writerVars, inbox,
                 broadcasterVars, nmsg, ghostVars, now, reaperVars>>

\* Close of newcanva: close(h.done); under the clients lock, close(cl.done)
\* and wsConn.Close() for every entry, then a new empty map.
FallbackClose ==
  /\ "h" \notin done
  /\ done' = done \cup {"h"} \cup clients[0]
  /\ panicked' = (panicked \/ clients[0] \cap done # {})
  /\ clients' = [clients EXCEPT ![0] = {}]
  /\ UNCHANGED <<cid, byId, streams, stalled, crit, unreg, qcode, sendChan, registry,
                 nsess, history, feed, lastActive, connVars, writerVars,
                 inbox, broadcasterVars, nmsg, ghostVars, now, reaperVars>>

\* Close of canvaxservice: close(h.done); under the clients lock, a new
\* empty map.  No stream is closed.
Close ==
  /\ "h" \notin done
  /\ done' = done \cup {"h"}
  /\ clients' = [clients EXCEPT ![0] = {}]
  /\ UNCHANGED <<cid, byId, streams, panicked, stalled, crit, unreg, qcode, sendChan,
                 registry, nsess, history, feed, lastActive, connVars,
                 writerVars, inbox, broadcasterVars, nmsg, ghostVars, now,
                 reaperVars>>

\* handleBroadcasts: the select takes h.done and the goroutine returns.
handleBroadcasts_Exit ==
  /\ bpc = "wait"
  /\ "h" \in done
  /\ bpc' = "exited"
  /\ UNCHANGED <<auxVars, qcode, sendChan, registry, nsess, canvasVars,
                 connVars, writerVars, inbox, bheld, nmsg, ghostVars, now,
                 reaperVars>>

\* ------------------------------------------------------ the locks

\* The row of LockOps a goroutine is executing.
OpOf(t) == CHOOSE o \in LockOps \cup LastActiveOps : o.op = crit[t].op

TaskKind(t) == IF t \in Conns THEN "conn" ELSE t

\* sync.RWMutex: Lock waits until nobody holds the mutex, RLock until no
\* writer holds it.
RWMutex_Lock(t, o) ==
  /\ crit[t] = NoCrit
  /\ o.by = TaskKind(t)
  /\ \A u \in Tasks \ {t} :
       (crit[u] # NoCrit /\ OpOf(u).mu = o.mu) =>
         (LockMode(o.op) = "RLock" /\ LockMode(crit[u].op) = "RLock")
  /\ crit' = [crit EXCEPT ![t] = [op |-> o.op, stage |-> "locked"]]
  /\ UNCHANGED <<cid, byId, streams, done, panicked, stalled, unreg, qcode, sendChan,
                 registry, nsess, canvasVars, connVars, writerVars, inbox,
                 broadcasterVars, nmsg, ghostVars, now, reaperVars>>

\* The goroutine reads or writes the structure between lock and unlock.
Critical_Access(t) ==
  /\ crit[t].stage = "locked"
  /\ crit' = [crit EXCEPT ![t].stage = "access"]
  /\ UNCHANGED <<cid, byId, streams, done, panicked, stalled, unreg, qcode, sendChan,
                 registry, nsess, canvasVars, connVars, writerVars, inbox,
                 broadcasterVars, nmsg, ghostVars, now, reaperVars>>

\* Unlock or RUnlock (deferred or not) after the access.
RWMutex_Unlock(t) ==
  /\ crit[t].stage = "access"
  /\ crit' = [crit EXCEPT ![t] = NoCrit]
  /\ UNCHANGED <<cid, byId, streams, done, panicked, stalled, unreg, qcode, sendChan,
                 registry, nsess, canvasVars, connVars, writerVars, inbox,
                 broadcasterVars, nmsg, ghostVars, now, reaperVars>>

\* A goroutine starts an access to LastActive: the cleaner once it holds
\* SessionsMu, an event-processing goroutine at any time.
LastActive_Access(t, o) ==
  /\ crit[t] = NoCrit
  /\ o.by = TaskKind(t)
  /\ o.mu # "none" =>
       \A u \in Tasks \ {t} : crit[u] # NoCrit => OpOf(u).mu # o.mu
  /\ crit' = [crit EXCEPT ![t] = [op |-> o.op, stage |-> "access"]]
  /\ UNCHANGED <<cid, byId, streams, done, panicked, stalled, unreg, qcode, sendChan,
                 registry, nsess, canvasVars, connVars, writerVars, inbox,
                 broadcasterVars, nmsg, ghostVars, now, reaperVars>>

\* The assignment or the comparison is over.
LastActive_Done(t) ==
  /\ crit[t].stage = "access"
  /\ OpOf(t) \in LastActiveOps
  /\ crit' = [crit EXCEPT ![t] = NoCrit]
  /\ UNCHANGED <<cid, byId, streams, done, panicked, stalled, unreg, qcode, sendChan,
                 registry, nsess, canvasVars, connVars, writerVars, inbox,
                 broadcasterVars, nmsg, ghostVars, now, reaperVars>>

\* ------------------------------------------------------ specifications

\* The steps of a connection to HandleWebSocket of newcanva.
FallbackNext(c) ==
  \/ FallbackWebSocket_UpgradeFailed(c)
  \/ FallbackWebSocket_registerClient(c)
  \/ FallbackWebSocket_sendInitialHistory(c)
  \/ \E type \in EventTypes, pid \in PayloadIds :
       handleWebSocketMessages_Receive(c, type, pid)
  \/ handleWebSocketMessages_Broadcast(c)
  \/ handleWebSocketMessages_clearHistory(c)
  \/ handleWebSocketMessages_DecodeError(c)
  \/ handleWebSocketMessages_Return(c)

\* The steps of a connection to HandleWebSocket and of its writer.
WsNext(c) ==
  \/ \E code \in Codes \cup {""} : HandleWebSocket_Lookup(c, code)
  \/ HandleWebSocket_UpgradeFailed(c)
  \/ HandleWebSocket_Register(c)
  \/ HandleWebSocket_SendInitialHistory(c)
  \/ \E type \in EventTypes, pid \in PayloadIds :
       processSessionDrawEvent_Append(c, type, pid)
  \/ processSessionDrawEvent_Broadcast(c)
  \/ processSessionDrawEvent_LastActive(c)
  \/ sessionWebSocketReader_DecodeError(c)
  \/ sessionWebSocketReader_Return(c)
  \/ sessionBroadcastWriter_Receive(c)
  \/ sessionBroadcastWriter_Write(c)

\* The steps of a connection to Collaborate.
BidiNext(c) ==
  \/ Collaborate_registerClient(c)
  \/ sendInitialHistory_Copy(c)
  \/ sendInitialHistory_Send(c)
  \/ \E type \in EventTypes, pid \in PayloadIds : Collaborate_Receive(c, type, pid)
  \/ Collaborate_Broadcast(c)
  \/ Collaborate_clearHistory(c)
  \/ Collaborate_Return(c)

BroadcasterNext ==
  \/ handleBroadcasts_Receive
  \/ broadcastToClients

CleanerNext ==
  \/ sessionCleaner_Tick
  \/ \E code \in Codes : sessionCleaner_Count(code)
  \/ sessionCleaner_Delete
  \/ sessionCleaner_Unlock

\* The codes no session is stored under.
FreshCodes == {k \in Codes : registry[k] = 0}

\* Event flow: every connection on either handler, no clock; the generator
\* gives CreateCanvas a code no session holds.
Next ==
  \/ \E c \in Conns : WsNext(c) \/ BidiNext(c)
  \/ \E code \in FreshCodes : CreateCanvas(code)
  \/ BroadcasterNext

Spec == Init /\ [][Next]_vars

\* Session lifecycle: one connection to HandleWebSocket, the clock and
\* sessionCleaner; the generator gives CreateCanvas a code no session holds.
\* The connection's writer reads and writes nothing the cleaner or the
\* registry depend on, and is left out.
ReapConns == {"c1"}

NextReap ==
  \/ \E c \in ReapConns :
       \/ \E code \in Codes : HandleWebSocket_Lookup(c, code)
       \/ HandleWebSocket_Register(c)
       \/ HandleWebSocket_SendInitialHistory(c)
       \/ processSessionDrawEvent_Append(c, "draw", "")
       \/ processSessionDrawEvent_Broadcast(c)
       \/ processSessionDrawEvent_LastActive(c)
       \/ sessionWebSocketReader_Return(c)
  \/ \E code \in FreshCodes : CreateCanvas(code)
  \/ CleanerNext
  \/ Clock

SpecReap == Init /\ [][NextReap]_vars

\* The handler-level canvas of newcanva: every connection on the WebSocket
\* fallback, and handleBroadcasts.
NextFallback ==
  \/ \E c \in Conns : FallbackNext(c)
  \/ BroadcasterNext

SpecFallback == Init /\ [][NextFallback]_vars

\* The registry: CreateCanvas with any code of the generator, one request
\* to a join entry point with any code parameter, the clock and
\* sessionCleaner.
NextRegistry ==
  \/ \E c \in ReapConns :
       \/ \E code \in Codes \cup {""} : HandleWebSocket_Lookup(c, code)
       \/ \E code \in Codes \cup {""} : JoinCanvas(c, code)
       \/ HandleWebSocket_UpgradeFailed(c)
       \/ HandleWebSocket_Register(c)
       \/ HandleWebSocket_SendInitialHistory(c)
       \/ sessionWebSocketReader_Return(c)
  \/ \E code \in Codes : CreateCanvas(code)
  \/ CleanerNext
  \/ Clock

SpecRegistry == Init /\ [][NextRegistry]_vars


\* The history algorithms near the limit: one connection, on either
\* handler, joins a canvas that earlier connections left with a history of
\* one of these lengths.
PrefillLens == {0, 2, HistoryLimit - 1, HistoryLimit}

SoloConns == {"c1"}

\* The i-th event an earlier connection c0 left in a history.
PrefillEvent(i) ==
  [type |-> "draw", clientId |-> ClientID("c0"), time |-> ClientTime,
   from |-> "c0", n |-> 0 - i]

Prefill(len) == [i \in 1 .. len |-> PrefillEvent(i)]

\* The state earlier connections, all gone, left behind: one session under
\* every code, and on the handler-level canvas and that session len events
\* appended, the last flen of them still in the broadcast channel.
InitAfter(len, flen) ==
    /\ registry = [k \in Codes |-> 1]
    /\ nsess = 1
    /\ clients = [s \in CanvasIds |-> {}]
    /\ history = [s \in CanvasIds |-> IF s <= 1 THEN Prefill(len) ELSE <<>>]
    /\ feed = [s \in CanvasIds |->
         IF s <= 1 THEN SubSeq(Prefill(len), len - flen + 1, len) ELSE <<>>]
    /\ lastActive = [s \in CanvasIds |-> 0]
    /\ prog = [c \in Conns |-> "none"]
    /\ pc = [c \in Conns |-> "idle"]
    /\ status = [c \in Conns |-> ""]
    /\ csess = [c \in Conns |-> 0]
    /\ snap = [c \in Conns |-> <<>>]
    /\ cur = [c \in Conns |-> NoEvent]
    /\ wpc = [c \in Conns |-> "off"]
    /\ wheld = [c \in Conns |-> NoEvent]
    /\ inbox = [c \in Conns |-> <<>>]
    /\ bpc = "wait"
    /\ bheld = NoEvent
    /\ nmsg = 0
    /\ appendLog = [s \in CanvasIds |-> IF s <= 1 THEN Prefill(len) ELSE <<>>]
    /\ joinedNonEmpty = [c \in Conns |-> FALSE]
    /\ now = 0
    /\ rpc = "sleep"
    /\ rnow = 0
    /\ rtodo = {}
    /\ rcode = ""
    /\ rcount = 0
    /\ visited = NoVisit
    /\ qcode = [c \in Conns |-> ""]
    /\ sendChan = [c \in Conns |-> <<>>]
    /\ streams = [c \in Conns |-> [st \in Streams |-> NoStream]]
    /\ done = {}
    /\ panicked = FALSE
    /\ stalled = {}
    /\ crit = [t \in Tasks |-> NoCrit]
    /\ unreg = [c \in Conns |-> <<>>]
    /\ cid = [c \in Conns |-> ""]
    /\ byId = [id \in RandomStrings |-> NoConn]

InitHist == \E len \in PrefillLens : InitAfter(len, 0)

NextHist ==
  \/ \E c \in SoloConns : WsNext(c) \/ BidiNext(c)
  \/ BroadcasterNext

SpecHist == InitHist /\ [][NextHist]_vars

\* The broadcast channel near its capacity: one connection, on any handler,
\* joins a canvas whose channel earlier connections left with this many
\* events.  What receives from the channel (handleBroadcasts, the writer of
\* the connection) is held up in a write to a slow peer for the whole run.
FeedLens == {BroadcastCap - 1, BroadcastCap}

InitFeed == \E flen \in FeedLens : InitAfter(BroadcastCap, flen)

NextFeed ==
  \E c \in SoloConns :
    \/ \E code \in Codes : HandleWebSocket_Lookup(c, code)
    \/ HandleWebSocket_Register(c)
    \/ HandleWebSocket_SendInitialHistory(c)
    \/ \E type \in EventTypes, pid \in PayloadIds :
         processSessionDrawEvent_Append(c, type, pid)
    \/ processSessionDrawEvent_Broadcast(c)
    \/ processSessionDrawEvent_LastActive(c)
    \/ sessionWebSocketReader_Return(c)
    \/ BidiNext(c)
    \/ FallbackNext(c)

SpecFeed == InitFeed /\ [][NextFeed]_vars

\* A connection that comes and goes: the steps of the handlers and of their
\* goroutines are taken when they stay possible; nothing makes a client
\* send a request or close its connection.
ServerSteps ==
  \/ \E c \in SoloConns :
       \/ HandleWebSocket_Register(c)
       \/ HandleWebSocket_SendInitialHistory(c)
       \/ processSessionDrawEvent_Broadcast(c)
       \/ processSessionDrawEvent_LastActive(c)
       \/ sessionBroadcastWriter_Receive(c)
       \/ sessionBroadcastWriter_Write(c)
       \/ sendInitialHistory_Copy(c)
       \/ sendInitialHistory_Send(c)
       \/ Collaborate_Broadcast(c)
       \/ Collaborate_clearHistory(c)
  \/ BroadcasterNext

SpecLeave == InitHist /\ [][NextHist]_vars /\ WF_vars(ServerSteps)

\* Sessions of newcanva over WebTransport: one connection with its streams.
WtNext(c) ==
  \/ \E code \in Codes \cup {""} : HandleWebTransport_Lookup(c, code)
  \/ HandleWebTransport_UpgradeFailed(c)
  \/ HandleWebTransport_Register(c)
  \/ HandleWebTransport_SendInitialHistory(c)
  \/ \E st \in Streams :
       \/ handleSessionReceive_AcceptStream(c, st)
       \/ \E type \in EventTypes, pid \in PayloadIds :
            handleSessionReceive_Read(c, st, type, pid)
       \/ handleSessionReceive_Append(c, st)
       \/ handleSessionReceive_Broadcast(c, st)
       \/ handleSessionReceive_LastActive(c, st)
  \/ handleSessionReceive_Return(c)
  \/ handleSessionSend_Receive(c)
  \/ handleSessionSend_Write(c)
  \/ handleSessionSend_Done(c)

NextStreams ==
  \/ \E c \in SoloConns : WtNext(c)
  \/ \E code \in FreshCodes : CreateCanvas(code)

SpecStreams == Init /\ [][NextStreams]_vars

\* Shutdown of newcanva: the WebSocket fallback with draw events only,
\* Close, and further calls of unregisterClient.
NextFallbackClose ==
  \/ \E c \in Conns :
       \/ FallbackWebSocket_UpgradeFailed(c)
       \/ FallbackWebSocket_registerClient(c)
       \/ FallbackWebSocket_sendInitialHistory(c)
       \/ handleWebSocketMessages_Receive(c, "draw", "")
       \/ handleWebSocketMessages_Broadcast(c)
       \/ handleWebSocketMessages_Return(c)
       \/ unregisterClient_Call(c)
  \/ BroadcasterNext
  \/ FallbackClose
  \/ handleBroadcasts_Exit

SpecFallbackClose == Init /\ [][NextFallbackClose]_vars

\* Shutdown of canvaxservice: Collaborate, handleBroadcasts and Close.  The
\* server's own steps are taken when they stay possible; nothing makes a
\* client send a request or close its connection.
NextShutdown ==
  \/ \E c \in Conns : BidiNext(c)
  \/ BroadcasterNext
  \/ Close
  \/ handleBroadcasts_Exit

ShutdownSteps ==
  \/ \E c \in Conns :
       \/ sendInitialHistory_Copy(c)
       \/ sendInitialHistory_Send(c)
       \/ Collaborate_Broadcast(c)
       \/ Collaborate_clearHistory(c)
  \/ BroadcasterNext
  \/ handleBroadcasts_Exit

SpecShutdown == Init /\ [][NextShutdown]_vars /\ WF_vars(ShutdownSteps)

\* The critical sections of the sessions and the accesses to LastActive:
\* every goroutine runs those that are its own, in any order.
SessionLockOps == {o \in LockOps : o.mu \in {"session.ClientsMu", "session.HistoryMu"}}

NextLastActive ==
  \E t \in Conns \cup {"sessionCleaner"} :
    \/ \E o \in SessionLockOps : RWMutex_Lock(t, o)
    \/ Critical_Access(t)
    \/ crit[t].op \in {o.op : o \in LockOps} /\ RWMutex_Unlock(t)
    \/ \E o \in LastActiveOps : LastActive_Access(t, o)
    \/ LastActive_Done(t)

SpecLastActive == Init /\ [][NextLastActive]_vars

\* The done channels of newcanva: connections that come to the WebSocket
\* fallback and go, further calls of unregisterClient, Close, and the
\* sessions with CreateCanvas, the clock and sessionCleaner.
NextDone ==
  \/ \E c \in Conns :
       \/ FallbackWebSocket_registerClient(c)
       \/ FallbackWebSocket_sendInitialHistory(c)
       \/ handleWebSocketMessages_Return(c)
       \/ unregisterClient_Call(c)
  \/ FallbackClose
  \/ \E code \in FreshCodes : CreateCanvas(code)
  \/ sessionCleaner_Tick
  \/ \E code \in Codes : sessionCleaner_Count(code)
  \/ sessionCleaner_CloseDelete
  \/ sessionCleaner_Unlock
  \/ Clock

SpecDone == Init /\ [][NextDone]_vars

\* Shutdown of canvaxservice with the broadcast channel near its capacity:
\* Collaborate with draw events and Close, on a canvas whose channel earlier
\* connections left with FeedLens events.  These are the runs in which
\* handleBroadcasts sees h.done closed before it takes another event.
NextFeedShutdown ==
  \/ \E c \in Conns :
       \/ Collaborate_registerClient(c)
       \/ sendInitialHistory_Copy(c)
       \/ sendInitialHistory_Send(c)
       \/ Collaborate_Receive(c, "draw", "")
       \/ Collaborate_Broadcast(c)
       \/ Collaborate_Return(c)
  \/ Close
  \/ handleBroadcasts_Exit

SpecFeedShutdown == InitFeed /\ [][NextFeedShutdown]_vars

\* The locks alone: every goroutine runs the critical sections of LockOps
\* that are its own, in any order and any number of times.
NextLocks ==
  \E t \in Tasks :
    \/ \E o \in LockOps : RWMutex_Lock(t, o)
    \/ Critical_Access(t)
    \/ RWMutex_Unlock(t)

SpecLocks == Init /\ [][NextLocks]_vars

\* Joining and leaving: every connection on either handler, the requests
\* being draw and clear events with an empty client_id.
NextJoin ==
  \/ \E c \in Conns :
       \/ \E code \in Codes \cup {""} : HandleWebSocket_Lookup(c, code)
       \/ HandleWebSocket_UpgradeFailed(c)
       \/ HandleWebSocket_Register(c)
       \/ HandleWebSocket_SendInitialHistory(c)
       \/ \E type \in {"draw", "clear"} : processSessionDrawEvent_Append(c, type, "")
       \/ processSessionDrawEvent_Broadcast(c)
       \/ processSessionDrawEvent_LastActive(c)
       \/ sessionWebSocketReader_Return(c)
       \/ sessionBroadcastWriter_Receive(c)
       \/ sessionBroadcastWriter_Write(c)
       \/ Collaborate_registerClient(c)
       \/ sendInitialHistory_Copy(c)
       \/ sendInitialHistory_Send(c)
       \/ \E type \in {"draw", "clear"} : Collaborate_Receive(c, type, "")
       \/ Collaborate_Broadcast(c)
       \/ Collaborate_clearHistory(c)
       \/ Collaborate_Return(c)
  \/ \E code \in FreshCodes : CreateCanvas(code)
  \/ BroadcasterNext

SpecJoin == Init /\ [][NextJoin]_vars

\* Several canvases side by side: connections to HandleWebSocket of
\* sessions and to the fallback's handler-level canvas, draw events only;
\* CreateCanvas with any code, so that a code can come to name a second
\* session while the first still has its clients.
NextIsolation ==
  \/ \E c \in Conns :
       \/ \E code \in Codes : HandleWebSocket_Lookup(c, code)
       \/ HandleWebSocket_Register(c)
       \/ HandleWebSocket_SendInitialHistory(c)
       \/ processSessionDrawEvent_Append(c, "draw", "")
       \/ processSessionDrawEvent_Broadcast(c)
       \/ processSessionDrawEvent_LastActive(c)
       \/ sessionWebSocketReader_Return(c)
       \/ sessionBroadcastWriter_Receive(c)
       \/ sessionBroadcastWriter_Write(c)
       \/ FallbackWebSocket_registerClient(c)
       \/ FallbackWebSocket_sendInitialHistory(c)
       \/ handleWebSocketMessages_Receive(c, "draw", "")
       \/ handleWebSocketMessages_Broadcast(c)
       \/ handleWebSocketMessages_Return(c)
  \/ \E code \in Codes : CreateCanvas(code)
  \/ BroadcasterNext

SpecIsolation == Init /\ [][NextIsolation]_vars

\* Slow peers on the handler-level canvas: every connection on Collaborate,
\* any of them with a peer that stops reading, and handleBroadcasts.  The
\* steps of Collaborate and of handleBroadcasts are taken when they stay
\* possible; nothing makes a client send a request or close its connection.
NextSlow ==
  \/ \E c \in Conns : BidiNext(c) \/ PeerStalls(c)
  \/ BroadcasterNext

CollaborateSteps ==
  \/ \E c \in Conns :
       \/ sendInitialHistory_Copy(c)
       \/ sendInitialHistory_Send(c)
       \/ Collaborate_Broadcast(c)
       \/ Collaborate_clearHistory(c)
  \/ BroadcasterNext

SpecSlow == Init /\ [][NextSlow]_vars /\ WF_vars(CollaborateSteps)


\* ---------------------------------------------------------- properties

\* Some message written to c carries event e as a broadcast.
Delivered(c, e) ==
  \E i \in 1 .. Len(inbox[c]) :
    inbox[c][i].kind = "event" /\ inbox[c][i].event.n = e.n

\* The initial history written to c holds event e.
InInitialHistory(c, e) ==
  \E i \in 1 .. Len(inbox[c]) :
    /\ inbox[c][i].kind = "history"
    /\ \E j \in 1 .. Len(inbox[c][i].events) : inbox[c][i].events[j].n = e.n

\* Event e of canvas s is still on its way: appended and not yet sent to the
\* channel, in the channel, or taken from it and not yet written.
InFlight(s, e) ==
  \/ \E i \in 1 .. Len(feed[s]) : feed[s][i].n = e.n
  \/ \E c \in Conns : wpc[c] = "write" /\ wheld[c].n = e.n
  \/ bheld.n = e.n
  \/ \E c \in Conns : pc[c] = "appended" /\ cur[c].n = e.n

\* Place of event e in the append order of canvas s.
AppendIndex(s, e) ==
  CHOOSE k \in 1 .. Len(appendLog[s]) : appendLog[s][k].n = e.n

\* The event carries the id the server generated for its connection.
ServerStamped(e) == e.clientId = ClientID(e.from)

\* C1: the history holds at most HistoryLimit events immediately after each
\* append, on the handler-level canvas and on a session.
C1_HistoryWithinLimit ==
  \A c \in Conns :
    pc[c] = "appended" => Len(history[csess[c]]) <= HistoryLimit

\* C2: once a draw event sent into a session has left the channel and been
\* written, every other client registered in the session since before the
\* event was appended (its initial history does not hold the event) has
\* received it.
C2_EveryOtherClientReceives ==
  \A s \in SessionIds : \A i \in 1 .. Len(appendLog[s]) :
    LET e == appendLog[s][i] IN
      (e.type = "draw" /\ ~InFlight(s, e)) =>
        \A d \in clients[s] \ {e.from} :
          (wpc[d] # "off" /\ ~InInitialHistory(d, e)) => Delivered(d, e)

\* C3: two events delivered to one client reach it in the order in which
\* they were appended to the history.
C3_DeliveryFollowsAppendOrder ==
  \A c \in Conns : \A i, j \in 1 .. Len(inbox[c]) :
    (i < j /\ inbox[c][i].kind = "event" /\ inbox[c][j].kind = "event") =>
      AppendIndex(csess[c], inbox[c][i].event) < AppendIndex(csess[c], inbox[c][j].event)

\* C4: every event in a history, in a channel or written to a client carries
\* the server-generated id of the connection that sent it.
C4_ServerAssignedClientId ==
  /\ \A s \in CanvasIds :
       /\ \A i \in 1 .. Len(history[s]) : ServerStamped(history[s][i])
       /\ \A i \in 1 .. Len(feed[s]) : ServerStamped(feed[s][i])
  /\ \A c \in Conns : \A i \in 1 .. Len(inbox[c]) :
       IF inbox[c][i].kind = "event"
         THEN ServerStamped(inbox[c][i].event)
         ELSE \A j \in 1 .. Len(inbox[c][i].events) :
                ServerStamped(inbox[c][i].events[j])

\* C4 witness: an event of one connection is in the history and has been
\* written to the other connection.
C4_Witness ==
  \E c, d \in Conns : \E i \in 1 .. Len(inbox[d]) :
    /\ c # d
    /\ inbox[d][i].kind = "event"
    /\ inbox[d][i].event.from = c
    /\ \E k \in 1 .. Len(history[csess[c]]) :
         history[csess[c]][k] = inbox[d][i].event

\* C5: a client that registered while the history held events gets the
\* initial history as the first message on its connection.
C5_InitialHistoryFirst ==
  \A c \in Conns :
    (joinedNonEmpty[c] /\ inbox[c] # <<>>) => inbox[c][1].kind = "history"

\* C6: a session that had a registered client when sessionCleaner examined
\* it is not removed and stays in the registry.
C6_OccupiedSessionKept ==
  (visited.s # 0 /\ visited.count >= 1) =>
    (~visited.removed /\ registry[visited.code] = visited.s)

\* C6 witness: a session idle for longer than the expiry was examined with
\* a client registered.
C6_Witness ==
  /\ visited.s # 0
  /\ visited.count >= 1
  /\ visited.idle > sessionExpiryDuration
  /\ registry[visited.code] = visited.s

\* C7: a session examined with no client is removed exactly when the pass's
\* now is more than the expiry after its LastActive.
C7_EmptySessionRemovedIffExpired ==
  (visited.s # 0 /\ visited.count = 0) =>
    /\ visited.removed <=> visited.idle > sessionExpiryDuration
    /\ visited.removed => registry[visited.code] # visited.s
    /\ ~visited.removed => registry[visited.code] = visited.s

\* C7 witness: a clientless session was removed one minute past the expiry.
C7_Witness ==
  /\ visited.s # 0
  /\ visited.count = 0
  /\ visited.idle = sessionExpiryDuration + 1
  /\ visited.removed
  /\ registry[visited.code] = 0

\* C8: after clearHistory(e) a copy of the history is exactly <<e>>.
C8_ClearLeavesOnlyClearEvent ==
  \A c \in Conns :
    (prog[c] = "bidi" /\ pc[c] = "reading" /\ cur[c].type = "clear") =>
      copyHistory(history[0]) = <<cur[c]>>

\* C8 witness: the clear came when the history was at its limit.
C8_Witness ==
  \E c \in Conns :
    /\ prog[c] = "bidi"
    /\ pc[c] = "reading"
    /\ cur[c].type = "clear"
    /\ Len(appendLog[0]) = HistoryLimit + 1
    /\ history[0] = <<cur[c]>>

\* C9: when one client alone has sent draw events and then a clear, the
\* history of its canvas is the clear event alone.
C9_DrawsThenClearLeaveClear ==
  \A c \in Conns :
    ( /\ pc[c] = "reading"
      /\ cur[c].type = "clear"
      /\ \A i \in 1 .. Len(appendLog[csess[c]]) :
           /\ appendLog[csess[c]][i].from = c
           /\ appendLog[csess[c]][i].type = "draw" \/ appendLog[csess[c]][i] = cur[c] )
    => history[csess[c]] = <<cur[c]>>

\* C10: after HistoryLimit + 1 appends of events that are not clears, the
\* last of which found the history at the limit, the history holds at most
\* HistoryLimit / 2 + 1 events.
C10_AppendAtLimitHalves ==
  \A c \in Conns :
    ( /\ pc[c] = "appended"
      /\ Len(appendLog[csess[c]]) = HistoryLimit + 1
      /\ \A i \in 1 .. Len(appendLog[csess[c]]) : appendLog[csess[c]][i].type # "clear" )
    => Len(history[csess[c]]) <= (HistoryLimit \div 2) + 1

\* Some message written to c is a pong that carries c's client id.
GotPong(c) ==
  \E i \in 1 .. Len(inbox[c]) :
    /\ inbox[c][i].kind = "event"
    /\ inbox[c][i].event.type = "pong"
    /\ inbox[c][i].event.clientId = ClientID(c)

\* No event is in a broadcast channel or held by a goroutine that took it
\* from one.
NothingInFlight ==
  /\ \A s \in CanvasIds : feed[s] = <<>>
  /\ bheld = NoEvent
  /\ \A c \in Conns : wpc[c] # "write"

\* Event e was appended to canvas s.
WasAppended(s, e) == \E k \in 1 .. Len(appendLog[s]) : appendLog[s][k] = e

\* The DrawEvents written to c: those sent alone and those of an initial
\* history.
DeliveredEvents(c) ==
  {inbox[c][i].event : i \in {j \in 1 .. Len(inbox[c]) : inbox[c][j].kind = "event"}}
  \cup UNION {{inbox[c][i].events[j] : j \in 1 .. Len(inbox[c][i].events)} :
               i \in 1 .. Len(inbox[c])}

\* C11: a connection whose ping the server has finished handling (the
\* receive loop waits for the next message and nothing is on its way to any
\* client) has been written a pong that carries its own client id.
C11_PingAnsweredWithPong ==
  \A c \in Conns :
    (cur[c].type = "ping" /\ pc[c] = "reading" /\ NothingInFlight) => GotPong(c)

\* C12: a ping is never in a history, never in a broadcast channel, and
\* never written to a client.
C12_PingLeavesNoTrace ==
  /\ \A s \in CanvasIds :
       /\ \A i \in 1 .. Len(history[s]) : history[s][i].type # "ping"
       /\ \A i \in 1 .. Len(feed[s]) : feed[s][i].type # "ping"
  /\ \A c \in Conns : \A e \in DeliveredEvents(c) : e.type # "ping"

\* C13: a receive task that has appended an event and is about to publish
\* it can take its next step whatever the broadcast channel holds.
C13_PublishNeverBlocks ==
  \A c \in Conns :
    pc[c] = "appended" =>
      ENABLED ( \/ processSessionDrawEvent_Broadcast(c)
                \/ Collaborate_Broadcast(c)
                \/ handleWebSocketMessages_Broadcast(c) )

\* C14, as stated: every DrawEvent written to a client was appended to the
\* history of its canvas before.
C14_DeliveredWasAppended ==
  \A c \in Conns : \A e \in DeliveredEvents(c) : WasAppended(csess[c], e)

\* C14, amended: every DrawEvent written to a client, other than a pong,
\* was appended to the history of its canvas before.
C14_DeliveredExceptPongWasAppended ==
  \A c \in Conns : \A e \in DeliveredEvents(c) :
    e.type # "pong" => WasAppended(csess[c], e)

\* C14 witness: a client has been written a pong and the broadcast of an
\* event another client sent.
C14_Witness ==
  \E c \in Conns :
    /\ GotPong(c)
    /\ \E e \in DeliveredEvents(c) : e.type = "draw" /\ e.from # c

\* C15: an entry of the registry stays what it is in every step, but the
\* step in which sessionCleaner deletes it.
C15_RegistryEntryStable ==
  [][\A k \in Codes :
       registry[k] # 0 =>
         \/ registry'[k] = registry[k]
         \/ rpc = "test" /\ rcode = k /\ registry'[k] = 0]_vars

\* C16: a request answered 404 has registered no client, been sent nothing
\* and started no goroutine, and a connect request that resolved no session
\* was answered 400 or 404.
C16_UnknownCodeRejected ==
  \A c \in Conns :
    /\ status[c] = "404" =>
         /\ pc[c] = "closed"
         /\ \A s \in CanvasIds : c \notin clients[s]
         /\ inbox[c] = <<>>
         /\ sendChan[c] = <<>>
         /\ wpc[c] = "off"
    /\ (prog[c] = "ws" /\ csess[c] = 0) => status[c] \in {"400", "404"}

\* C16 witness: a connect request with the code of a session that was
\* created and is no longer in the registry was answered 404.
C16_Witness ==
  \E c \in Conns :
    /\ prog[c] = "ws"
    /\ status[c] = "404"
    /\ qcode[c] \in Codes
    /\ nsess >= 1
    /\ registry[qcode[c]] = 0

\* C17: a request to a join entry point with an empty code is answered 400.
C17_EmptyCodeInvalidArgument ==
  \A c \in Conns :
    (prog[c] \in {"ws", "join"} /\ pc[c] = "closed" /\ qcode[c] = "") =>
      status[c] = "400"

\* C18: the time of every event in a history is a reading of the server's
\* clock.
C18_ServerAssignedTime ==
  \A s \in CanvasIds : \A i \in 1 .. Len(history[s]) :
    history[s][i].time \in 0 .. MaxNow

\* C19: the step in which a client is added to or deleted from a session's
\* clients sets the session's LastActive to the clock.
C19_JoinAndLeaveTouchLastActive ==
  [][\A c \in Conns :
       ( \/ pc[c] = "looked" /\ pc'[c] = "registered"
         \/ pc[c] = "reading" /\ pc'[c] = "closed" )
       => lastActive'[csess[c]] = now']_vars

\* C20: once a connection's receive loop has returned, the connection is in
\* no clients map and its writer, if it had one, eventually returns.
C20_BothTasksTerminate ==
  \A c \in Conns :
    [](pc[c] = "closed" =>
         <>(wpc[c] \in {"off", "done"} /\ \A s \in CanvasIds : c \notin clients[s]))

\* C21: the step in which a receive loop meets a message that does not
\* decode leaves the loop reading and the client in its clients map.
C21_DecodeErrorKeepsConnection ==
  [][\A c \in Conns :
       (cur'[c] # cur[c] /\ cur'[c].type = "malformed") =>
         /\ pc'[c] = "reading"
         /\ \A s \in CanvasIds : c \in clients[s] => c \in clients'[s]]_vars

\* C22: when the write of an event to one client has failed and nothing is
\* on its way any more, every other client that was registered and
\* streaming before the event was appended, its sender apart, has been
\* written the event.
C22_WriteFailureSparesOthers ==
  \A c \in Conns :
    (wpc[c] = "done" /\ wheld[c] # NoEvent /\ ~InFlight(csess[c], wheld[c])) =>
      \A d \in clients[csess[c]] \ {c, wheld[c].from} :
        (wpc[d] # "off" /\ ~InInitialHistory(d, wheld[c])) => Delivered(d, wheld[c])

\* C23: it happens again and again that handleBroadcasts holds no event it
\* has yet to send, or that no registered client has a peer that still reads.
C23_SlowClientDoesNotStall ==
  []<>(bheld = NoEvent \/ clients[0] \subseteq stalled)

\* C24: of two events of one connection that are both in a history, the one
\* the server received first comes first.
C24_ConnectionOrderKept ==
  \A s \in CanvasIds : \A i, j \in DOMAIN history[s] :
    (i < j /\ history[s][i].from = history[s][j].from) =>
      history[s][i].n < history[s][j].n

\* C25: a call of unregisterClient with an id that is not in the clients map
\* leaves the map and the done channels as they are and does not panic.
C25_UnregisterIdempotent ==
  [][\A c \in Conns :
       (unreg'[c] # unreg[c] /\ c \notin clients[0]) =>
         (clients' = clients /\ done' = done /\ ~panicked')]_vars

\* Close released a client before its handler's deferred unregisterClient
\* ran, and unregisterClient ran a second time for another id.
C25_Witness ==
  /\ ~panicked
  /\ \E c \in Conns : "h" \in done /\ c \in done /\ unreg[c] = <<"absent">>
  /\ \E d \in Conns : Len(unreg[d]) = 2 /\ unreg[d][2] = "absent"

\* C26: once Close was called, handleBroadcasts and the handler of every
\* connection eventually have returned.
C26_CloseReleasesEveryTask ==
  ("h" \in done) ~> (bpc = "exited" /\ \A c \in Conns : pc[c] \in {"idle", "closed"})

\* C27: a goroutine that writes a structure holds its mutex in Lock mode, and
\* while it writes no other goroutine reads or writes that structure.
C27_LockDiscipline ==
  \A t \in Tasks : crit[t].stage = "access" =>
    /\ OpOf(t).access = "write" => LockMode(crit[t].op) = "Lock"
    /\ \A u \in Tasks \ {t} :
         (crit[u].stage = "access" /\ OpOf(u).obj = OpOf(t).obj) =>
           (OpOf(t).access = "read" /\ OpOf(u).access = "read")

\* One goroutine appends to a session's history while another changes the
\* session's clients map and two more read the handler's clients map.
C27_Witness ==
  \E t, u \in Tasks :
    /\ crit[t] = [op |-> "processSessionDrawEvent", stage |-> "access"]
    /\ crit[u] = [op |-> "HandleWebSocket.delete", stage |-> "access"]
    /\ crit["handleBroadcasts"].stage = "access"

\* The state of the connection state machine a handler position belongs to.
Phase(p) ==
  CASE p \in {"idle", "looked"} -> "Connecting"
    [] p \in {"registered", "copied"} -> "Registered"
    [] p = "closed" -> "Closed"
    [] OTHER -> "Streaming"

\* The message a step added to the inbox of c.
NewMessage(c) == inbox'[c][Len(inbox'[c])]

C30_OneInitialHistory ==
  \A c \in Conns :
    Phase(pc[c]) = "Streaming" =>
      Cardinality({i \in DOMAIN inbox[c] : inbox[c][i].kind = "history"}) = 1

\* C31: every session with a client in its clients map is stored in the
\* registry under some code.
C31_OccupiedSessionInRegistry ==
  \A s \in SessionIds :
    clients[s] # {} => \E k \in Codes : registry[k] = s

\* C32: while other clients are registered in its session, the dispatch
\* goroutine of a connection that is closed takes no event from the
\* session's Broadcast channel.
C32_NoReceiveForDepartedClient ==
  [][\A c \in Conns :
       (pc[c] = "closed" /\ wpc[c] = "wait" /\ clients[csess[c]] # {}) =>
         wpc'[c] # "write"]_vars

\* C33: when the handling of a clear event ends with clearHistory, every
\* event appended to the canvas after that clear event is in the history.
C33_ClearKeepsLaterEvents ==
  [][\A c \in Conns :
       (pc[c] = "clearing" /\ pc'[c] = "reading") =>
         \A i \in DOMAIN appendLog[0] :
           i > AppendIndex(0, cur[c]) =>
             \E j \in DOMAIN history'[0] : history'[0][j] = appendLog[0][i]]_vars

\* C34: no event is written to a connection both inside its initial history
\* and as a broadcast.
C34_NoEventTwice ==
  \A c \in Conns : \A s \in CanvasIds : \A i \in DOMAIN appendLog[s] :
    ~(InInitialHistory(c, appendLog[s][i]) /\ Delivered(c, appendLog[s][i]))

\* C35: every event in a canvas's history was sent by a connection of that
\* canvas, and every event written to a connection was sent by a connection
\* of the same canvas.
C35_SessionsIsolated ==
  /\ \A s \in CanvasIds : \A i \in DOMAIN history[s] :
       csess[history[s][i].from] = s
  /\ \A c \in Conns : \A e \in DeliveredEvents(c) :
       e # NoEvent => csess[e.from] = csess[c]

\* Two connections are in two different sessions, or one in a session and one
\* on the handler-level canvas, and each has been written an event.
C35_Witness ==
  \E c, d \in Conns :
    /\ csess[c] # csess[d]
    /\ csess[c] \in SessionIds
    /\ DeliveredEvents(c) \ {NoEvent} # {}
    /\ DeliveredEvents(d) \ {NoEvent} # {}

\* The connections of the handler-level canvas between registerClient and
\* the deferred unregisterClient.
OpenCollaborate == {c \in Conns : prog[c] = "bidi" /\ pc[c] \in {"registered", "copied", "reading", "appended"}}

\* C36: the keys of the clients map are exactly the client ids of the
\* connections between registration and close: no handler's exit removes
\* the entry of a connection that is still open.
C36_ClientsMapIsOpenConnections ==
  {id \in RandomStrings : byId[id] # NoConn} = {cid[c] : c \in OpenCollaborate}

\* The events appended to canvas s from its last clear event on.
SinceLastClear(s) ==
  LET log == appendLog[s]
      ks == {i \in DOMAIN log : log[i].type = "clear"}
      k == IF ks = {} THEN 1 ELSE CHOOSE i \in ks : \A j \in ks : j <= i
  IN SubSeq(log, k, Len(log))

\* h holds the last Len(h) elements of l, in the same order.
IsSuffix(h, l) ==
  /\ Len(h) <= Len(l)
  /\ h = SubSeq(l, Len(l) - Len(h) + 1, Len(l))

\* A handler is between the append of a clear event and clearHistory.
ClearInProgress ==
  \E c \in Conns : pc[c] \in {"appended", "clearing"} /\ cur[c].type = "clear"

\* C37: whenever no clear is under way, the history of the handler-level
\* canvas holds, in append order and once each, the most recent of the
\* events appended since the last clear: what is missing is a prefix.
C37_HistoryIsRecentSuffix ==
  ~ClearInProgress => IsSuffix(history[0], SinceLastClear(0))

\* The connections inside Collaborate, between registerClient and the
\* deferred unregisterClient.
Connected ==
  {c \in Conns : prog[c] = "bidi" /\ pc[c] \notin {"idle", "closed"}}

\* The handler is in h.broadcast <- drawEvent and the channel is full.
BlockedOnFeed(c) == pc[c] = "appended" /\ Len(feed[0]) >= BroadcastCap

\* C38: no deadlock: in no state are clients connected with every
\* connection handler blocked on the broadcast feed and no step of the
\* broadcast task possible.
C38_NoDeadlock ==
  ~(/\ Connected # {}
    /\ \A c \in Connected : BlockedOnFeed(c)
    /\ ~ENABLED BroadcasterNext)

\* C39: while a goroutine writes a session's LastActive, no other goroutine
\* reads or writes it unless both hold one and the same mutex.
C39_NoRaceOnLastActive ==
  \A t \in Tasks :
    (/\ crit[t].stage = "access"
     /\ OpOf(t).obj = "session.LastActive"
     /\ OpOf(t).access = "write") =>
      \A u \in Tasks \ {t} :
        (crit[u].stage = "access" /\ OpOf(u).obj = "session.LastActive") =>
          (OpOf(t).mu # "none" /\ OpOf(t).mu = OpOf(u).mu)

=============================================================================
